---- MODULE Spec2Model ----
(***************************************************************************)
(* NilCafe backend: the cart, order and catalog request handlers as a      *)
(* state machine over the shared document store.                           *)
(*                                                                         *)
(* Node runs a handler without interruption up to its next `await`; every  *)
(* awaited store call is one step of the request, and steps of different   *)
(* requests interleave freely.  A request slot holds the handler's local   *)
(* variables between two awaits.                                           *)
(*                                                                         *)
(* An optional JavaScript value (undefined / null / a value) is a sequence *)
(* of length at most one: None is <<>>, Some(v) is <<v>>.                  *)
(***************************************************************************)
EXTENDS Integers, Sequences, FiniteSets, TLC

VARIABLES
    products,     \* the Product collection: product id -> None | Some(document)
    carts,        \* the Cart collection: a set of documents
    nextCartId,   \* the next _id the store hands to a new Cart document
    creq,         \* cart request slots: the locals of a running POST /cart/save
    orders,       \* the Order collection: a sequence, the _id of an order is its index
    oreq,         \* order request slots: the locals of a running POST /orders/create
    sres,         \* the response of the last PUT /orders/:orderId/status
    gres,         \* the response of GET /cart/:customerId while it is being delivered
    dres,         \* the response of the last DELETE /cart/:customerId
    now,          \* Date.now(), in units of the model's clock
    rateLimitStore,   \* the rate limiter's Map: key -> None | Some(record)
    lres          \* the outcome of the last call of a rate limiter

limitVars == <<now, rateLimitStore, lres>>
vars == <<products, carts, nextCartId, creq, orders, oreq, sres, gres, dres, limitVars>>
cartVars == <<carts, nextCartId, creq>>
orderVars == <<orders, oreq, sres>>

----------------------------------------------------------------------------
(* Bounds of the model *)

MaxItems == 2        \* longest submitted item list
MaxCartDocs == 3     \* cart documents created in one run
MaxVersion == 2      \* highest __v a cart document reaches
MaxOrders == 2       \* orders persisted in one run
MaxClock == 5        \* last instant of the clock
MaxCount == 4        \* highest count a rate-limit record reaches

----------------------------------------------------------------------------
(* Optional values and JavaScript truthiness *)

None == <<>>
Some(v) == <<v>>

TruthyStr(x) == x # None /\ x[1] # ""
TruthyNum(x) == x # None /\ x[1] # 0

\* a || b || c on optional strings, c a plain default
OrStr(a, b, c) == IF TruthyStr(a) THEN a[1] ELSE IF TruthyStr(b) THEN b[1] ELSE c

----------------------------------------------------------------------------
(* Identifiers *)

UserIds == {"u1", "u2"}          \* the users that exist
GhostUser == "u9"                \* a well-formed id of no user
ProductIds == {"p1", "p2"}       \* ids the catalog has handed out
GhostProduct == "p9"             \* a well-formed id the catalog never handed out
Malformed == "bad"               \* a string that is no ObjectId

WellFormedIds == UserIds \cup {GhostUser} \cup ProductIds \cup {GhostProduct}

\* mongoose.Types.ObjectId.isValid
IsValidObjectId(id) == id \in WellFormedIds

\* User.findById on a well-formed id
UserExists(id) == id \in UserIds

----------------------------------------------------------------------------
(* The catalog *)

ProductP1 ==
    [name |-> "Latte", description |-> "d1", price |-> 3, image |-> "img1",
     category |-> "Coffee", isAvailable |-> TRUE]

ProductP2 ==
    [name |-> "Chai", description |-> "", price |-> 4, image |-> "",
     category |-> "Tea", isAvailable |-> TRUE]

ValidCategories == {"Coffee", "Tea", "Juices", "Snacks", "Desserts"}

\* Product.findById on a well-formed id: None or Some(document)
FindProduct(pid) == IF pid \in ProductIds THEN products[pid] ELSE None

\* the form fields of POST /products/edit/:id (price arrives as a number here;
\* 0 stands for a price that parseFloat rejects or that is not positive)
EditForms ==
    { [name |-> "Mocha", description |-> "d2", price |-> 5, category |-> "Tea",
       image |-> "", isAvailable |-> TRUE],
      [name |-> "Mocha", description |-> "", price |-> 5, category |-> "Coffee",
       image |-> "img2", isAvailable |-> FALSE],
      [name |-> "", description |-> "d2", price |-> 5, category |-> "Tea",
       image |-> "", isAvailable |-> TRUE],
      [name |-> "Mocha", description |-> "d2", price |-> 0, category |-> "Tea",
       image |-> "", isAvailable |-> TRUE],
      [name |-> "Mocha", description |-> "d2", price |-> 5, category |-> "Pizza",
       image |-> "", isAvailable |-> TRUE] }

EditFormValid(f) ==
    /\ f.name # ""
    /\ f.category \in ValidCategories
    /\ f.price > 0

EditedProduct(old, f) ==
    [name |-> f.name, description |-> f.description, price |-> f.price,
     category |-> f.category,
     image |-> IF f.image # "" THEN f.image ELSE old.image,
     isAvailable |-> f.isAvailable]

\* POST /products/edit/:id
EditProduct(pid, f) ==
    /\ FindProduct(pid) # None
    /\ EditFormValid(f)
    /\ products' = [products EXCEPT ![pid] = Some(EditedProduct(products[pid][1], f))]
    /\ UNCHANGED <<cartVars, orderVars, gres, dres, limitVars>>

\* a deletion that also removes the product's lines from every stored cart
DeleteProductCascades(pid) ==
    /\ products[pid] # <<>>
    /\ products' = [products EXCEPT ![pid] = <<>>]
    /\ carts' = { [d EXCEPT !.items = SelectSeq(d.items, LAMBDA l : l.productId # pid)] :
                    d \in carts }
    /\ UNCHANGED <<nextCartId, creq, orders, oreq, sres, gres, dres, limitVars>>

\* POST /products/delete/:id
DeleteProduct(pid) ==
    /\ FindProduct(pid) # None
    /\ products' = [products EXCEPT ![pid] = None]
    /\ UNCHANGED <<cartVars, orderVars, gres, dres, limitVars>>

\* PUT /products/api/:id/availability
SetAvailability(pid, b) ==
    /\ FindProduct(pid) # None
    /\ products' = [products EXCEPT ![pid] = Some([products[pid][1] EXCEPT !.isAvailable = b])]
    /\ UNCHANGED <<cartVars, orderVars, gres, dres, limitVars>>

----------------------------------------------------------------------------
(* The Cart collection (cartSchema) *)

NoCart == [id |-> 0, v |-> 0]      \* findOne found nothing / no document loaded

CartOf(c) == {d \in carts : d.customerId = c}

\* a Cart collection without the unique index: no insert is refused
NoUniqueIndex(c) == FALSE

\* the unique index on customerId: an insert for c is refused (E11000)
UniqueViolation(c) == CartOf(c) # {}

\* a delete that removes nothing
CartsUntouched(c) == carts

\* a delete that removes the carts of every customer
CartsDropped(c) == {}

\* Cart.findOne({customerId}): the handle of the document found, or NoCart
FindCart(c) ==
    IF CartOf(c) = {} THEN NoCart
    ELSE LET d == CHOOSE d \in CartOf(c) : TRUE IN [id |-> d.id, v |-> d.__v]

\* Cart.findOneAndDelete({customerId}): removes one matching document
CartsAfterDelete(c) ==
    IF CartOf(c) = {} THEN carts
    ELSE carts \ {CHOOSE d \in CartOf(c) : TRUE}

\* schema validation of a cart document on save: quantity has min 1
CartLinesValid(lines) == \A i \in 1..Len(lines) : lines[i].quantity >= 1

\* cart.save() of a loaded document whose items array was replaced: mongoose
\* sends the update with the document's _id and __v in the filter and
\* increments __v; it matches the stored document or nothing
SaveMatches(h) == \E d \in carts : d.id = h.id /\ d.__v = h.v

\* a save that appends the new lines to the stored ones
CartsAfterSaveMerges(h, lines) ==
    { IF d.id = h.id /\ d.__v = h.v
        THEN [d EXCEPT !.items = d.items \o lines, !.__v = d.__v + 1]
        ELSE d : d \in carts }

CartsAfterSave(h, lines) ==
    { IF d.id = h.id /\ d.__v = h.v
        THEN [d EXCEPT !.items = lines, !.__v = d.__v + 1]
        ELSE d : d \in carts }

\* a new document whose lines lost their quantities
NewCartDocZeroed(c, lines) ==
    [id |-> nextCartId, customerId |-> c,
     items |-> [i \in 1..Len(lines) |-> [lines[i] EXCEPT !.quantity = 0]], __v |-> 0]

\* new Cart({ customerId, items: formattedItems })
NewCartDoc(c, lines) ==
    [id |-> nextCartId, customerId |-> c, items |-> lines, __v |-> 0]

----------------------------------------------------------------------------
(* POST /cart/save *)

NoRes == [code |-> 0, msg |-> ""]
Res(code, msg) == [code |-> code, msg |-> msg]

NoCartBody == [customerId |-> None, items |-> None]

CIdle ==
    [pc |-> "idle", body |-> NoCartBody, idx |-> 0, formatted |-> <<>>,
     cart |-> NoCart, conflict |-> FALSE, res |-> NoRes]

CartSlots == {"s1", "s2"}

\* const productId = item.productId || item.id
ItemProductId(item) == IF TruthyStr(item.productId) THEN item.productId ELSE item.id

\* a line that takes every display field from the catalog
FormattedItemFromCatalog(item, product) ==
    [productId |-> ItemProductId(item)[1],
     name |-> product.name,
     price |-> product.price,
     quantity |-> IF TruthyNum(item.quantity) /\ item.quantity[1] > 0
                    THEN item.quantity[1] ELSE 1,
     image |-> product.image,
     description |-> product.description,
     category |-> product.category]

\* the line stored for a submitted item whose product was found
FormattedItem(item, product) ==
    [productId |-> ItemProductId(item)[1],
     name |-> OrStr(item.name, Some(product.name), "Unknown Product"),
     price |-> IF item.price # None THEN item.price[1] ELSE product.price,
     quantity |-> IF TruthyNum(item.quantity) /\ item.quantity[1] > 0
                    THEN item.quantity[1] ELSE 1,
     image |-> OrStr(item.image, Some(product.image), ""),
     description |-> OrStr(item.description, Some(product.description), ""),
     category |-> OrStr(item.category, Some(product.category), "")]

\* if (!formattedItem.name || !formattedItem.productId || price is undefined/null)
FormattedItemUsable(line) == line.name # "" /\ line.productId # ""

CDone(q, code, msg) == [q EXCEPT !.pc = "done", !.res = Res(code, msg)]

\* a loop that goes on to store the lines it formatted even when there are none
LoopFromKeepsEmpty(q, i, lines) ==
    LET items == q.body.items[1] IN
    IF i > Len(items)
      THEN [q EXCEPT !.pc = "find", !.idx = i, !.formatted = lines]
      ELSE LET pid == ItemProductId(items[i]) IN
           IF ~TruthyStr(pid)
             THEN [CDone(q, 400, "ProductIdMissing") EXCEPT !.idx = i, !.formatted = lines]
           ELSE IF ~IsValidObjectId(pid[1])
             THEN [CDone(q, 400, "InvalidProductId") EXCEPT !.idx = i, !.formatted = lines]
           ELSE [q EXCEPT !.pc = "product", !.idx = i, !.formatted = lines]

\* The handler from the top of the loop body for item i (or from the end of
\* the loop) up to its next await, with `lines` formatted so far
LoopFrom(q, i, lines) ==
    LET items == q.body.items[1] IN
    IF i > Len(items)
      THEN IF lines = <<>>
             THEN [CDone(q, 400, "NoValidItems") EXCEPT !.idx = i, !.formatted = lines]
             ELSE [q EXCEPT !.pc = "find", !.idx = i, !.formatted = lines]
      ELSE LET pid == ItemProductId(items[i]) IN
           IF ~TruthyStr(pid)
             THEN [CDone(q, 400, "ProductIdMissing") EXCEPT !.idx = i, !.formatted = lines]
           ELSE IF ~IsValidObjectId(pid[1])
             THEN [CDone(q, 400, "InvalidProductId") EXCEPT !.idx = i, !.formatted = lines]
           ELSE [q EXCEPT !.pc = "product", !.idx = i, !.formatted = lines]

\* the request arrives; the handler runs to `await User.findById`
SaveBegin(r, body) ==
    /\ creq[r].pc = "idle"
    /\ LET q == [CIdle EXCEPT !.body = body] IN
       creq' = [creq EXCEPT ![r] =
                  IF ~TruthyStr(body.customerId)
                    THEN CDone(q, 400, "CustomerIdRequired")
                    ELSE [q EXCEPT !.pc = "user"]]
    /\ UNCHANGED <<products, carts, nextCartId, orderVars, gres, dres, limitVars>>

\* a handler that does not look at what User.findById returned
SaveUserSkipsCheck(r) ==
    LET q == creq[r] IN
    /\ q.pc = "user"
    /\ creq' = [creq EXCEPT ![r] =
                  IF q.body.items = None THEN CDone(q, 400, "ItemsNotArray")
                  ELSE IF q.body.items[1] = <<>> THEN [q EXCEPT !.pc = "delete"]
                  ELSE LoopFrom(q, 1, <<>>)]
    /\ UNCHANGED <<products, carts, nextCartId, orderVars, gres, dres, limitVars>>

\* User.findById returns; the handler runs to its next await
SaveUser(r) ==
    LET q == creq[r]
        c == q.body.customerId[1] IN
    /\ q.pc = "user"
    /\ creq' = [creq EXCEPT ![r] =
                  IF ~IsValidObjectId(c) THEN CDone(q, 500, "CastError")
                  ELSE IF ~UserExists(c) THEN CDone(q, 404, "CustomerNotFound")
                  ELSE IF q.body.items = None THEN CDone(q, 400, "ItemsNotArray")
                  ELSE IF q.body.items[1] = <<>> THEN [q EXCEPT !.pc = "delete"]
                  ELSE LoopFrom(q, 1, <<>>)]
    /\ UNCHANGED <<products, carts, nextCartId, orderVars, gres, dres, limitVars>>

\* Cart.findOneAndDelete of the empty-list branch
SaveDelete(r) ==
    LET q == creq[r] IN
    /\ q.pc = "delete"
    /\ carts' = CartsAfterDelete(q.body.customerId[1])
    /\ creq' = [creq EXCEPT ![r] = CDone(q, 200, "CartCleared")]
    /\ UNCHANGED <<products, nextCartId, orderVars, gres, dres, limitVars>>

\* a loop that rejects the request at the first product it cannot find
SaveProductStrict(r) ==
    LET q == creq[r]
        item == q.body.items[1][q.idx]
        found == FindProduct(ItemProductId(item)[1]) IN
    /\ q.pc = "product"
    /\ creq' = [creq EXCEPT ![r] =
                  IF found = None THEN CDone(q, 404, "ProductNotFound")
                  ELSE LoopFrom(q, q.idx + 1,
                                Append(q.formatted, FormattedItem(item, found[1])))]
    /\ UNCHANGED <<products, carts, nextCartId, orderVars, gres, dres, limitVars>>

\* Product.findById for item idx returns
SaveProduct(r) ==
    LET q == creq[r]
        item == q.body.items[1][q.idx]
        found == FindProduct(ItemProductId(item)[1])
        line == FormattedItem(item, found[1])
        lines == IF found # None /\ FormattedItemUsable(line)
                   THEN Append(q.formatted, line) ELSE q.formatted IN
    /\ q.pc = "product"
    /\ creq' = [creq EXCEPT ![r] = LoopFrom(q, q.idx + 1, lines)]
    /\ UNCHANGED <<products, carts, nextCartId, orderVars, gres, dres, limitVars>>

\* Cart.findOne returns: update the cart found, or create one
SaveFind(r) ==
    LET q == creq[r]
        h == FindCart(q.body.customerId[1]) IN
    /\ q.pc = "find"
    /\ creq' = [creq EXCEPT ![r] =
                  [q EXCEPT !.cart = h, !.pc = IF h # NoCart THEN "update" ELSE "create"]]
    /\ UNCHANGED <<products, carts, nextCartId, orderVars, gres, dres, limitVars>>

\* cart.save() of the loaded document returns (first try or after the re-read)
SaveUpdate(r) ==
    LET q == creq[r] IN
    /\ q.pc \in {"update", "reupdate"}
    /\ IF ~CartLinesValid(q.formatted)
         THEN /\ creq' = [creq EXCEPT ![r] = CDone(q, 500, "ValidationError")]
              /\ UNCHANGED carts
       ELSE IF ~SaveMatches(q.cart)
         THEN /\ creq' = [creq EXCEPT ![r] = CDone(q, 500, "VersionError")]
              /\ UNCHANGED carts
       ELSE /\ q.cart.v < MaxVersion
            /\ carts' = CartsAfterSave(q.cart, q.formatted)
            /\ creq' = [creq EXCEPT ![r] = [q EXCEPT !.pc = "populate"]]
    /\ UNCHANGED <<products, nextCartId, orderVars, gres, dres, limitVars>>

\* cart.save() of the new document returns
SaveCreate(r) ==
    LET q == creq[r]
        c == q.body.customerId[1] IN
    /\ q.pc = "create"
    /\ IF ~CartLinesValid(q.formatted)
         THEN /\ creq' = [creq EXCEPT ![r] = CDone(q, 500, "ValidationError")]
              /\ UNCHANGED <<carts, nextCartId>>
       ELSE IF UniqueViolation(c)
         THEN /\ creq' = [creq EXCEPT ![r] = [q EXCEPT !.pc = "refind", !.conflict = TRUE]]
              /\ UNCHANGED <<carts, nextCartId>>
       ELSE /\ nextCartId <= MaxCartDocs
            /\ carts' = carts \cup {NewCartDoc(c, q.formatted)}
            /\ nextCartId' = nextCartId + 1
            /\ creq' = [creq EXCEPT ![r] =
                          [q EXCEPT !.pc = "populate",
                                    !.cart = [id |-> nextCartId, v |-> 0]]]
    /\ UNCHANGED <<products, orderVars, gres, dres, limitVars>>

\* a catch block that rethrows the duplicate-key error whatever it re-reads
RethrowDuplicateKey(q, h) == CDone(q, 500, "DuplicateKey")

\* a catch block that goes back to the create whatever it re-reads
RetryCreate(q, h) == [q EXCEPT !.pc = "create", !.conflict = TRUE]

\* the catch block of the create path, once its Cart.findOne has returned h
RecoverDuplicateKey(q, h) ==
    IF h # NoCart THEN [q EXCEPT !.cart = h, !.pc = "reupdate"]
    ELSE CDone(q, 500, "DuplicateKey")

\* the Cart.findOne after the duplicate-key error returns
SaveRefind(r) ==
    LET q == creq[r] IN
    /\ q.pc = "refind"
    /\ creq' = [creq EXCEPT ![r] = RecoverDuplicateKey(q, FindCart(q.body.customerId[1]))]
    /\ UNCHANGED <<products, carts, nextCartId, orderVars, gres, dres, limitVars>>

\* Cart.findById(cart._id).populate(...) returns; the response is sent
SavePopulate(r) ==
    LET q == creq[r] IN
    /\ q.pc = "populate"
    /\ creq' = [creq EXCEPT ![r] = CDone(q, 200, "CartSaved")]
    /\ UNCHANGED <<products, carts, nextCartId, orderVars, gres, dres, limitVars>>

\* the response has been delivered: the slot takes the next request
SaveEnd(r) ==
    /\ creq[r].pc = "done"
    /\ creq' = [creq EXCEPT ![r] = CIdle]
    /\ UNCHANGED <<products, carts, nextCartId, orderVars, gres, dres, limitVars>>

\* DELETE /cart/:customerId: Cart.findOneAndDelete returns and the response is
\* sent; a customerId that is no ObjectId makes the query throw a CastError
ClearCart(c) ==
    /\ IF ~IsValidObjectId(c)
         THEN dres' = Res(500, "CastError") /\ UNCHANGED carts
         ELSE dres' = Res(200, "CartCleared") /\ carts' = CartsAfterDelete(c)
    /\ UNCHANGED <<products, nextCartId, creq, orderVars, gres, limitVars>>

----------------------------------------------------------------------------
(* GET /cart/:customerId *)

NoGet == [code |-> 0, customerId |-> "", items |-> <<>>]
GetRes(code, c, items) == [code |-> code, customerId |-> c, items |-> items]

\* a read that reports a customer without a cart as not found
GetCartOrNotFound(c) ==
    /\ gres = NoGet
    /\ gres' = IF ~IsValidObjectId(c) THEN GetRes(500, c, <<>>)
               ELSE IF CartOf(c) = {} THEN GetRes(404, c, <<>>)
               ELSE GetRes(200, c, (CHOOSE d \in CartOf(c) : TRUE).items)
    /\ UNCHANGED <<products, cartVars, orderVars, dres, limitVars>>

\* Cart.findOne({customerId}).populate(...) returns and the response is sent:
\* the stored lines, or an empty list when the customer has no cart; the
\* product joined to each line by populate is not part of the model
GetCart(c) ==
    /\ gres = NoGet
    /\ gres' = IF ~IsValidObjectId(c) THEN GetRes(500, c, <<>>)
               ELSE IF CartOf(c) = {} THEN GetRes(200, c, <<>>)
               ELSE GetRes(200, c, (CHOOSE d \in CartOf(c) : TRUE).items)
    /\ UNCHANGED <<products, cartVars, orderVars, dres, limitVars>>

\* the response has been delivered
GetEnd ==
    /\ gres # NoGet
    /\ gres' = NoGet
    /\ UNCHANGED <<products, cartVars, orderVars, dres, limitVars>>

----------------------------------------------------------------------------
(* The Order collection (orderSchema) and the checkout request *)

\* the _id of the i-th order the store persists
OrderIdOf == <<"o1", "o2", "o3", "o4">>
GhostOrder == "o9"               \* a well-formed id of no order

Statuses == {"pending", "preparing", "ready", "on-the-way", "delivered", "cancelled"}
OrderTypes == {"delivery", "restaurant"}

\* /^\S+@\S+\.\S+$/ on a string given as its sequence of characters
EmailRegexTest(e) ==
    /\ \A i \in 1..Len(e) : e[i] # " "
    /\ \E i \in 2..Len(e) : \E j \in (i + 2)..(Len(e) - 1) : e[i] = "@" /\ e[j] = "."

\* String.prototype.trim
RECURSIVE TrimLeft(_)
TrimLeft(e) == IF e # <<>> /\ Head(e) = " " THEN TrimLeft(Tail(e)) ELSE e
RECURSIVE TrimRight(_)
TrimRight(e) ==
    IF e # <<>> /\ e[Len(e)] = " " THEN TrimRight(SubSeq(e, 1, Len(e) - 1)) ELSE e
Trim(e) == TrimRight(TrimLeft(e))

\* String.prototype.toLowerCase on the letters the requests use
LowerChar(ch) == IF ch = "C" THEN "c" ELSE IF ch = "X" THEN "x" ELSE ch
ToLowerCase(e) == [i \in 1..Len(e) |-> LowerChar(e[i])]

\* sanitizeBody on the string fields of the checkout body that can carry blanks
SanitizeOrderBody(b) ==
    [b EXCEPT !.email = IF b.email = None THEN None ELSE Some(Trim(b.email[1]))]

NoOrderBody ==
    [customerId |-> None, items |-> None, totalPrice |-> None, orderType |-> None,
     deliveryAddress |-> None, tableNumber |-> None, email |-> None,
     status |-> None, paymentStatus |-> None, preparedBy |-> None]

NoORes == [code |-> 0, msg |-> "", item |-> 0]
ORes(code, msg, item) == [code |-> code, msg |-> msg, item |-> item]

OIdle == [pc |-> "idle", body |-> NoOrderBody, idx |-> 0, newOrder |-> 0, res |-> NoORes]

OrderSlots == {"k1"}

ODone(q, code, msg, item) == [q EXCEPT !.pc = "done", !.res = ORes(code, msg, item)]

\* a validation that looks at the email before the total price
CheckFieldsEmailFirst(b) ==
    IF ~TruthyStr(b.customerId) \/ b.items = None \/ b.items = Some(<<>>)
      THEN ORes(400, "CustomerIdAndItemsRequired", 0)
    ELSE IF b.email = None \/ b.email[1] = <<>>
      THEN ORes(400, "EmailRequired", 0)
    ELSE IF ~EmailRegexTest(b.email[1])
      THEN ORes(400, "EmailInvalid", 0)
    ELSE IF ~TruthyNum(b.totalPrice) \/ b.totalPrice[1] <= 0
      THEN ORes(400, "TotalPriceRequired", 0)
    ELSE IF ~TruthyStr(b.orderType) \/ b.orderType[1] \notin OrderTypes
      THEN ORes(400, "OrderTypeInvalid", 0)
    ELSE IF b.orderType[1] = "delivery" /\ ~TruthyStr(b.deliveryAddress)
      THEN ORes(400, "DeliveryAddressRequired", 0)
    ELSE IF b.orderType[1] = "restaurant" /\ ~TruthyNum(b.tableNumber)
      THEN ORes(400, "TableNumberRequired", 0)
    ELSE NoORes

\* the validation of the request fields, in the order of the handler:
\* 0 when every check passes, else the response of the first check that fails
CheckFields(b) ==
    IF ~TruthyStr(b.customerId) \/ b.items = None \/ b.items = Some(<<>>)
      THEN ORes(400, "CustomerIdAndItemsRequired", 0)
    ELSE IF ~TruthyNum(b.totalPrice) \/ b.totalPrice[1] <= 0
      THEN ORes(400, "TotalPriceRequired", 0)
    ELSE IF ~TruthyStr(b.orderType) \/ b.orderType[1] \notin OrderTypes
      THEN ORes(400, "OrderTypeInvalid", 0)
    ELSE IF b.email = None \/ b.email[1] = <<>>
      THEN ORes(400, "EmailRequired", 0)
    ELSE IF ~EmailRegexTest(b.email[1])
      THEN ORes(400, "EmailInvalid", 0)
    ELSE IF b.orderType[1] = "delivery" /\ ~TruthyStr(b.deliveryAddress)
      THEN ORes(400, "DeliveryAddressRequired", 0)
    ELSE IF b.orderType[1] = "restaurant" /\ ~TruthyNum(b.tableNumber)
      THEN ORes(400, "TableNumberRequired", 0)
    ELSE NoORes

\* the fields of an order that come from the request, with given address,
\* table, status and payment status
OrderWith(b, address, table, status, paymentStatus) ==
    [customerId |-> b.customerId[1],
     items |-> [i \in 1..Len(b.items[1]) |->
                  [productId |-> ItemProductId(b.items[1][i])[1],
                   name |-> b.items[1][i].name,
                   price |-> b.items[1][i].price,
                   quantity |-> b.items[1][i].quantity]],
     totalPrice |-> b.totalPrice[1],
     orderType |-> b.orderType[1],
     deliveryAddress |-> address,
     tableNumber |-> table,
     email |-> ToLowerCase(Trim(b.email[1])),
     status |-> status,
     paymentStatus |-> paymentStatus,
     preparedBy |-> None,
     deliveryPersonId |-> None]

\* an order document that keeps both the address and the table of the request
NewOrderKeepsBoth(b) == OrderWith(b, b.deliveryAddress, b.tableNumber, "pending", "paid")

\* an order document that takes status and payment status from the request
NewOrderFromBody(b) ==
    OrderWith(b,
              IF b.orderType[1] = "delivery" THEN b.deliveryAddress ELSE None,
              IF b.orderType[1] = "restaurant" THEN b.tableNumber ELSE None,
              IF b.status # None THEN b.status[1] ELSE "pending",
              IF b.paymentStatus # None THEN b.paymentStatus[1] ELSE "paid")

\* an order document whose lines carry the catalog's price of their product
NewOrderRepriced(b) ==
    LET o == OrderWith(b,
                 IF b.orderType[1] = "delivery" THEN b.deliveryAddress ELSE None,
                 IF b.orderType[1] = "restaurant" THEN b.tableNumber ELSE None,
                 "pending", "paid") IN
    [o EXCEPT !.items =
        [i \in 1..Len(o.items) |->
            IF FindProduct(o.items[i].productId) = None THEN o.items[i]
            ELSE [o.items[i] EXCEPT
                    !.price = Some(FindProduct(o.items[i].productId)[1].price)]]]

\* new Order({...}): the document the handler builds from the request
NewOrder(b) ==
    OrderWith(b,
              IF b.orderType[1] = "delivery" THEN b.deliveryAddress ELSE None,
              IF b.orderType[1] = "restaurant" THEN b.tableNumber ELSE None,
              "pending", "paid")

\* the schema validation newOrder.save() runs before it writes
OrderValid(o) ==
    /\ o.orderType \in OrderTypes
    /\ o.status \in Statuses
    /\ o.paymentStatus \in {"unpaid", "paid"}
    /\ EmailRegexTest(o.email)

\* the request arrives; the handler validates the fields and awaits User.findById
OrderBegin(r, body) ==
    /\ oreq[r].pc = "idle"
    /\ LET b == SanitizeOrderBody(body)
           q == [OIdle EXCEPT !.body = b] IN
       oreq' = [oreq EXCEPT ![r] =
                  IF CheckFields(b) # NoORes
                    THEN [q EXCEPT !.pc = "done", !.res = CheckFields(b)]
                    ELSE [q EXCEPT !.pc = "user"]]
    /\ UNCHANGED <<products, cartVars, orders, sres, gres, dres, limitVars>>

\* a handler that persists the order as soon as the customer is found
OrderUserSavesFirst(r) ==
    LET q == oreq[r]
        c == q.body.customerId[1] IN
    /\ q.pc = "user"
    /\ IF ~IsValidObjectId(c)
         THEN oreq' = [oreq EXCEPT ![r] = ODone(q, 500, "CastError", 0)] /\ UNCHANGED orders
       ELSE IF ~UserExists(c)
         THEN oreq' = [oreq EXCEPT ![r] = ODone(q, 404, "CustomerNotFound", 0)]
              /\ UNCHANGED orders
       ELSE /\ Len(orders) < MaxOrders
            /\ orders' = Append(orders,
                   OrderWith([q.body EXCEPT !.items = Some(<<>>)], None, None, "pending", "paid"))
            /\ oreq' = [oreq EXCEPT ![r] = [q EXCEPT !.pc = "product", !.idx = 1]]
    /\ UNCHANGED <<products, cartVars, sres, gres, dres, limitVars>>

\* User.findById returns; on success the loop awaits the first Product.findById
OrderUser(r) ==
    LET q == oreq[r]
        c == q.body.customerId[1] IN
    /\ q.pc = "user"
    /\ oreq' = [oreq EXCEPT ![r] =
                  IF ~IsValidObjectId(c) THEN ODone(q, 500, "CastError", 0)
                  ELSE IF ~UserExists(c) THEN ODone(q, 404, "CustomerNotFound", 0)
                  ELSE [q EXCEPT !.pc = "product", !.idx = 1]]
    /\ UNCHANGED <<products, cartVars, orders, sres, gres, dres, limitVars>>

\* Product.findById(productId) as the checkout loop calls it: the id may be
\* absent (null is looked up and nothing is found) or malformed (CastError)
LookupThrows(pid) == TruthyStr(pid) /\ ~IsValidObjectId(pid[1])
LookupFinds(pid) == TruthyStr(pid) /\ IsValidObjectId(pid[1]) /\ FindProduct(pid[1]) # None

\* a loop that skips an item it cannot find, as the cart handler does
AfterLookupSkips(q) ==
    LET pid == ItemProductId(q.body.items[1][q.idx]) IN
    IF LookupThrows(pid) THEN ODone(q, 500, "CastError", q.idx)
    ELSE IF q.idx < Len(q.body.items[1]) THEN [q EXCEPT !.idx = q.idx + 1]
    ELSE [q EXCEPT !.pc = "save", !.idx = q.idx + 1]

\* the checkout loop once the lookup of item idx has returned
AfterLookup(q) ==
    LET pid == ItemProductId(q.body.items[1][q.idx]) IN
    IF LookupThrows(pid) THEN ODone(q, 500, "CastError", q.idx)
    ELSE IF ~LookupFinds(pid) THEN ODone(q, 404, "ProductNotFound", q.idx)
    ELSE IF q.idx < Len(q.body.items[1]) THEN [q EXCEPT !.idx = q.idx + 1]
    ELSE [q EXCEPT !.pc = "save", !.idx = q.idx + 1]

\* Product.findById for item idx returns
OrderProduct(r) ==
    /\ oreq[r].pc = "product"
    /\ oreq' = [oreq EXCEPT ![r] = AfterLookup(oreq[r])]
    /\ UNCHANGED <<products, cartVars, orders, sres, gres, dres, limitVars>>

\* a checkout that empties the customer's cart when it persists the order
OrderSaveEmptiesCart(r) ==
    LET q == oreq[r] IN
    /\ q.pc = "save"
    /\ IF ~OrderValid(NewOrder(q.body))
         THEN /\ oreq' = [oreq EXCEPT ![r] = ODone(q, 500, "ValidationError", 0)]
              /\ UNCHANGED <<orders, carts>>
         ELSE /\ Len(orders) < MaxOrders
              /\ orders' = Append(orders, NewOrder(q.body))
              /\ carts' = CartsAfterDelete(q.body.customerId[1])
              /\ oreq' = [oreq EXCEPT ![r] = [q EXCEPT !.pc = "populate",
                                                      !.newOrder = Len(orders) + 1]]
    /\ UNCHANGED <<products, nextCartId, creq, sres, gres, dres, limitVars>>

\* newOrder.save() returns
OrderSave(r) ==
    LET q == oreq[r] IN
    /\ q.pc = "save"
    /\ IF ~OrderValid(NewOrder(q.body))
         THEN /\ oreq' = [oreq EXCEPT ![r] = ODone(q, 500, "ValidationError", 0)]
              /\ UNCHANGED orders
         ELSE /\ Len(orders) < MaxOrders
              /\ orders' = Append(orders, NewOrder(q.body))
              /\ oreq' = [oreq EXCEPT ![r] = [q EXCEPT !.pc = "populate",
                                                      !.newOrder = Len(orders) + 1]]
    /\ UNCHANGED <<products, cartVars, sres, gres, dres, limitVars>>

\* Order.findById(newOrder._id).populate(...) returns; the response is sent
OrderPopulate(r) ==
    /\ oreq[r].pc = "populate"
    /\ oreq' = [oreq EXCEPT ![r] = ODone(oreq[r], 201, "OrderCreated", 0)]
    /\ UNCHANGED <<products, cartVars, orders, sres, gres, dres, limitVars>>

\* the response has been delivered: the slot takes the next request
OrderEnd(r) ==
    /\ oreq[r].pc = "done"
    /\ oreq' = [oreq EXCEPT ![r] = OIdle]
    /\ UNCHANGED <<products, cartVars, orders, sres, gres, dres, limitVars>>

----------------------------------------------------------------------------
(* PUT /orders/:orderId/status *)

FindOrder(id) == {i \in 1..Len(orders) : OrderIdOf[i] = id}
IsValidOrderId(id) == id \in {OrderIdOf[i] : i \in 1..Len(OrderIdOf)} \cup {GhostOrder}

\* an update that also clears the table number and marks the order unpaid
UpdatedOrderResets(o, status, preparedBy, deliveryPersonId) ==
    [o EXCEPT !.status = status,
              !.preparedBy = IF TruthyStr(preparedBy) THEN preparedBy ELSE @,
              !.deliveryPersonId = IF TruthyStr(deliveryPersonId) THEN deliveryPersonId ELSE @,
              !.tableNumber = None,
              !.paymentStatus = "unpaid"]

\* an update that treats delivered and cancelled as final
UpdatedOrderKeepsTerminal(o, status, preparedBy, deliveryPersonId) ==
    IF o.status \in {"delivered", "cancelled"} THEN o
    ELSE [o EXCEPT !.status = status,
                   !.preparedBy = IF TruthyStr(preparedBy) THEN preparedBy ELSE @,
                   !.deliveryPersonId = IF TruthyStr(deliveryPersonId) THEN deliveryPersonId ELSE @]

\* an update that writes both assignee fields as the request has them, absent
\* ones included
UpdatedOrderOverwrites(o, status, preparedBy, deliveryPersonId) ==
    [o EXCEPT !.status = status,
              !.preparedBy = IF TruthyStr(preparedBy) THEN preparedBy ELSE None,
              !.deliveryPersonId =
                  IF TruthyStr(deliveryPersonId) THEN deliveryPersonId ELSE None]

\* const updateData = { status }; if (preparedBy) ...; if (deliveryPersonId) ...
UpdatedOrder(o, status, preparedBy, deliveryPersonId) ==
    [o EXCEPT !.status = status,
              !.preparedBy = IF TruthyStr(preparedBy) THEN preparedBy ELSE @,
              !.deliveryPersonId = IF TruthyStr(deliveryPersonId) THEN deliveryPersonId ELSE @]

\* a handler that looks the order up before it checks the status
SetStatusLooksUpFirst(id, status, preparedBy, deliveryPersonId) ==
    /\ IF ~IsValidOrderId(id)
         THEN sres' = Res(500, "CastError") /\ UNCHANGED orders
       ELSE IF FindOrder(id) = {}
         THEN sres' = Res(404, "OrderNotFound") /\ UNCHANGED orders
       ELSE IF ~TruthyStr(status) \/ status[1] \notin Statuses
         THEN sres' = Res(400, "InvalidStatus") /\ UNCHANGED orders
       ELSE /\ sres' = Res(200, "StatusUpdated")
            /\ orders' = [i \in 1..Len(orders) |->
                            IF i \in FindOrder(id)
                              THEN UpdatedOrder(orders[i], status[1], preparedBy,
                                                deliveryPersonId)
                              ELSE orders[i]]
    /\ UNCHANGED <<products, cartVars, oreq, gres, dres, limitVars>>

\* a handler that accepts an assignee only if it is a user
SetStatusChecksUser(id, status, preparedBy, deliveryPersonId) ==
    /\ IF ~TruthyStr(status) \/ status[1] \notin Statuses
         THEN sres' = Res(400, "InvalidStatus") /\ UNCHANGED orders
       ELSE IF ~IsValidOrderId(id)
                 \/ (TruthyStr(preparedBy) /\ ~IsValidObjectId(preparedBy[1]))
                 \/ (TruthyStr(deliveryPersonId) /\ ~IsValidObjectId(deliveryPersonId[1]))
         THEN sres' = Res(500, "CastError") /\ UNCHANGED orders
       ELSE IF \/ (TruthyStr(preparedBy) /\ ~UserExists(preparedBy[1]))
               \/ (TruthyStr(deliveryPersonId) /\ ~UserExists(deliveryPersonId[1]))
         THEN sres' = Res(400, "NotStaff") /\ UNCHANGED orders
       ELSE IF FindOrder(id) = {}
         THEN sres' = Res(404, "OrderNotFound") /\ UNCHANGED orders
       ELSE /\ sres' = Res(200, "StatusUpdated")
            /\ orders' = [i \in 1..Len(orders) |->
                            IF i \in FindOrder(id)
                              THEN UpdatedOrder(orders[i], status[1], preparedBy,
                                                deliveryPersonId)
                              ELSE orders[i]]
    /\ UNCHANGED <<products, cartVars, oreq, gres, dres, limitVars>>

\* PUT /orders/:orderId/status: the whole handler, one awaited store call
SetStatus(id, status, preparedBy, deliveryPersonId) ==
    /\ IF ~TruthyStr(status) \/ status[1] \notin Statuses
         THEN sres' = Res(400, "InvalidStatus") /\ UNCHANGED orders
       ELSE IF ~IsValidOrderId(id)
                 \/ (TruthyStr(preparedBy) /\ ~IsValidObjectId(preparedBy[1]))
                 \/ (TruthyStr(deliveryPersonId) /\ ~IsValidObjectId(deliveryPersonId[1]))
         THEN sres' = Res(500, "CastError") /\ UNCHANGED orders
       ELSE IF FindOrder(id) = {}
         THEN sres' = Res(404, "OrderNotFound") /\ UNCHANGED orders
       ELSE /\ sres' = Res(200, "StatusUpdated")
            /\ orders' = [i \in 1..Len(orders) |->
                            IF i \in FindOrder(id)
                              THEN UpdatedOrder(orders[i], status[1], preparedBy,
                                                deliveryPersonId)
                              ELSE orders[i]]
    /\ UNCHANGED <<products, cartVars, oreq, gres, dres, limitVars>>

----------------------------------------------------------------------------
(* The rate limiter (rateLimitStore, rateLimiter and the periodic clean-up) *)

\* the two limiters the application builds, with their windows and limits in
\* units of the model: authRateLimiter has the long window and the low limit
authRateLimiter == [windowMs |-> 3, maxRequests |-> 2]
apiRateLimiter == [windowMs |-> 1, maxRequests |-> 3]
Limiters == {authRateLimiter, apiRateLimiter}

\* `${clientId}:${req.path}` for two clients and two paths
LimitKeys == {<<cl, path>> : cl \in {"ip1", "ip2"}, path \in {"/login"}}

NoLimitRes == [key |-> <<>>, code |-> 0, limiter |-> authRateLimiter]
LimitRes(k, code, L) == [key |-> k, code |-> code, limiter |-> L]

\* !(!record || now > record.resetTime): the record's window is still open
WindowOpen(record, t) == record # None /\ ~(t > record[1].resetTime)

\* a limiter whose rejected requests push the reset time forward
rateLimiterSliding(L, k) ==
    LET record == rateLimitStore[k] IN
    /\ IF ~WindowOpen(record, now)
         THEN /\ rateLimitStore' = [rateLimitStore EXCEPT ![k] =
                     Some([count |-> 1, resetTime |-> now + L.windowMs])]
              /\ lres' = LimitRes(k, 200, L)
         ELSE /\ record[1].count < MaxCount
              /\ rateLimitStore' = [rateLimitStore EXCEPT ![k] =
                     Some([count |-> record[1].count + 1,
                           resetTime |-> IF record[1].count + 1 > L.maxRequests
                                           THEN now + L.windowMs
                                           ELSE record[1].resetTime])]
              /\ lres' = LimitRes(k, IF record[1].count + 1 > L.maxRequests
                                       THEN 429 ELSE 200, L)
    /\ UNCHANGED <<products, cartVars, orderVars, gres, dres, now>>

\* the middleware rateLimiter(windowMs, maxRequests) returns, called with key k:
\* 200 stands for next(), 429 for the rejection
rateLimiter(L, k) ==
    LET record == rateLimitStore[k] IN
    /\ IF ~WindowOpen(record, now)
         THEN /\ rateLimitStore' = [rateLimitStore EXCEPT ![k] =
                     Some([count |-> 1, resetTime |-> now + L.windowMs])]
              /\ lres' = LimitRes(k, 200, L)
         ELSE /\ record[1].count < MaxCount
              /\ rateLimitStore' = [rateLimitStore EXCEPT ![k] =
                     Some([count |-> record[1].count + 1,
                           resetTime |-> record[1].resetTime])]
              /\ lres' = LimitRes(k, IF record[1].count + 1 > L.maxRequests
                                       THEN 429 ELSE 200, L)
    /\ UNCHANGED <<products, cartVars, orderVars, gres, dres, now>>

\* the setInterval callback: deletes every entry whose reset time has passed
Sweep ==
    /\ rateLimitStore' = [k \in LimitKeys |->
            IF rateLimitStore[k] # None /\ now > rateLimitStore[k][1].resetTime
              THEN None ELSE rateLimitStore[k]]
    /\ UNCHANGED <<products, cartVars, orderVars, gres, dres, now, lres>>

\* time passes
Tick ==
    /\ now < MaxClock
    /\ now' = now + 1
    /\ UNCHANGED <<products, cartVars, orderVars, gres, dres, rateLimitStore, lres>>

----------------------------------------------------------------------------
(* Submitted cart lines *)

BareItem(pid, qty) ==
    [productId |-> pid, id |-> None, name |-> None, price |-> None,
     quantity |-> qty, image |-> None, description |-> None, category |-> None]

ItemA == BareItem(Some("p1"), Some(2))
ItemB ==
    [productId |-> None, id |-> Some("p2"), name |-> Some("Mine"), price |-> Some(9),
     quantity |-> Some(0), image |-> Some("pic"), description |-> Some("text"),
     category |-> Some("Snacks")]
ItemGhost == BareItem(Some(GhostProduct), None)
ItemBad == BareItem(Some(Malformed), Some(1))
ItemNoId == BareItem(None, Some(1))

\* a line whose every optional field is present and falsy or negative
ItemBlank ==
    [productId |-> Some("p1"), id |-> None, name |-> Some(""), price |-> Some(0),
     quantity |-> Some(-1), image |-> Some(""), description |-> Some(""),
     category |-> Some("")]

\* the lists of 1..MaxItems items over a set of items
ListsOver(S) == UNION {[1..n -> S] : n \in 1..MaxItems}

\* the requests of the concurrent writers
RaceLists == {<<ItemA>>, <<ItemB>>, <<ItemGhost, ItemA>>, <<>>}
RaceBodies == {[customerId |-> Some(c), items |-> Some(l)] : c \in {"u1"}, l \in RaceLists}

----------------------------------------------------------------------------
(* Checkout requests *)

OrderItem(pid, name, price, qty) == [BareItem(pid, qty) EXCEPT !.name = name, !.price = price]

OA == OrderItem(Some("p1"), Some("Latte"), Some(3), Some(2))
OB == [OrderItem(None, Some("Cheap"), Some(1), Some(1)) EXCEPT !.id = Some("p2")]
OGhost == OrderItem(Some(GhostProduct), Some("Gone"), Some(2), Some(1))
OBad == OrderItem(Some(Malformed), None, Some(2), Some(1))
ONoId == OrderItem(None, None, Some(2), Some(1))

GoodEmail == <<"c", "@", "x", ".", "c">>
PaddedEmail == <<" ", "C", "@", "x", ".", "c", " ">>
BadEmail == <<"c", "x", ".", "c">>
SpacedEmail == <<"c", " ", "@", "x", ".", "c">>

\* requests that vary the fields the handler validates
FieldProbes ==
    { [customerId |-> c, items |-> l, totalPrice |-> t, orderType |-> ty,
       deliveryAddress |-> at[1], tableNumber |-> at[2], email |-> e,
       status |-> None, paymentStatus |-> None, preparedBy |-> None] :
         c \in {None, Some("u1"), Some(GhostUser), Some(Malformed)},
         l \in {Some(<<>>), Some(<<OA>>), Some(<<OGhost>>)},
         t \in {Some(0), Some(7)},
         ty \in {Some("pickup"), Some("delivery"), Some("restaurant")},
         at \in {<<None, None>>, <<Some("12 Nile St"), None>>, <<None, Some(4)>>},
         e \in {Some(BadEmail), Some(GoodEmail)} }

\* requests that pass the field validation and vary the item list
ItemProbes ==
    [customerId : {Some("u1")},
     items : {Some(l) : l \in ListsOver({OA, OGhost, OBad}) \cup {<<OA, OB>>, <<ONoId>>}},
     totalPrice : {Some(7)},
     orderType : {Some("restaurant")},
     deliveryAddress : {Some("12 Nile St")},
     tableNumber : {Some(4)},
     email : {Some(PaddedEmail)},
     status : {Some("delivered")}, paymentStatus : {Some("unpaid")},
     preparedBy : {Some("u2")}]

\* requests with a field left out or falsy where FieldProbes has a wrong value
FalsyProbes ==
    { [customerId |-> Some("u1"), items |-> l, totalPrice |-> t,
       orderType |-> ty, deliveryAddress |-> a, tableNumber |-> n, email |-> e,
       status |-> None, paymentStatus |-> None, preparedBy |-> None] :
         l \in {None, Some(<<OA>>)},
         t \in {None, Some(7)}, ty \in {None, Some("delivery"), Some("restaurant")},
         a \in {Some(""), Some("12 Nile St")}, n \in {Some(0)},
         e \in {None, Some(<<>>), Some(SpacedEmail), Some(GoodEmail)} }

OrderBodies == FieldProbes \cup ItemProbes \cup FalsyProbes

----------------------------------------------------------------------------
(* Specifications *)

Init ==
    /\ products = [p \in ProductIds |-> IF p = "p1" THEN Some(ProductP1) ELSE Some(ProductP2)]
    /\ carts = {}
    /\ nextCartId = 1
    /\ creq = [r \in CartSlots |-> CIdle]
    /\ orders = <<>>
    /\ oreq = [r \in OrderSlots |-> OIdle]
    /\ sres = NoRes
    /\ gres = NoGet
    /\ dres = NoRes
    /\ now = 0
    /\ rateLimitStore = [k \in LimitKeys |-> None]
    /\ lres = NoLimitRes

SaveStep(r) ==
    \/ SaveUser(r)
    \/ SaveProduct(r)
    \/ SaveFind(r)
    \/ SaveUpdate(r)
    \/ SaveCreate(r)
    \/ SaveRefind(r)
    \/ SavePopulate(r)

CatalogStep(P, F) ==
    \E pid \in P :
        \/ \E f \in F : EditProduct(pid, f)
        \/ DeleteProduct(pid)
        \/ \E b \in BOOLEAN : SetAvailability(pid, b)

\* the cart handlers under concurrent writers, beside the catalog handlers
NextCart ==
    \/ \E r \in CartSlots : \E b \in RaceBodies : SaveBegin(r, b)
    \/ \E r \in CartSlots : SaveStep(r) \/ SaveDelete(r) \/ SaveEnd(r)
    \/ \E c \in {"u1"} : ClearCart(c)

SpecCart == Init /\ [][NextCart]_vars

\* exactly two POST /cart/save requests, one per slot, for a customer without a
\* cart, each with a non-empty list of existing products, and nothing else
TwoSaveLists == {<<ItemA>>, <<ItemB>>, <<ItemA, ItemB>>}
TwoSaveBodies == {[customerId |-> Some("u1"), items |-> Some(l)] : l \in TwoSaveLists}

NextTwoSaves ==
    \/ \E r \in CartSlots : \E b \in TwoSaveBodies : SaveBegin(r, b)
    \/ \E r \in CartSlots : SaveStep(r)

SpecTwoSaves == Init /\ [][NextTwoSaves]_vars

\* two POST /cart/save requests, one per slot, beside any number of clears of
\* the customer's cart; the event loop runs the continuation of every store
\* call that has returned, so a request that can take a step takes it
NextRace ==
    \/ \E r \in CartSlots : \E b \in RaceBodies : SaveBegin(r, b)
    \/ \E r \in CartSlots : SaveStep(r) \/ SaveDelete(r)
    \/ ClearCart("u1")

SpecRace ==
    /\ Init /\ [][NextRace]_vars
    /\ \A r \in CartSlots : WF_vars(SaveStep(r) \/ SaveDelete(r))

\* any number of POST /cart/save requests for one customer, two at a time,
\* each with a non-empty list of which a line survives, and no clear
WriterLists == {<<ItemA>>, <<ItemB, ItemA>>, <<ItemGhost, ItemB>>}
WriterBodies == {[customerId |-> Some("u1"), items |-> Some(l)] : l \in WriterLists}

NextWriters ==
    \/ \E r \in CartSlots : \E b \in WriterBodies : SaveBegin(r, b)
    \/ \E r \in CartSlots : SaveStep(r) \/ SaveEnd(r)

SpecWriters == Init /\ [][NextWriters]_vars

OrderStep(r) ==
    \/ OrderUser(r)
    \/ OrderProduct(r)
    \/ OrderSave(r)
    \/ OrderPopulate(r)

\* the checkout handler beside deletions from the catalog
NextOrder ==
    \/ \E r \in OrderSlots : \E b \in OrderBodies : OrderBegin(r, b)
    \/ \E r \in OrderSlots : OrderStep(r) \/ OrderEnd(r)
    \/ DeleteProduct("p1")

SpecOrder == Init /\ [][NextOrder]_vars

\* a checkout that supplies an address and a table number at once
BothFields ==
    [NoOrderBody EXCEPT !.customerId = Some("u1"), !.items = Some(<<OA>>),
       !.totalPrice = Some(7), !.deliveryAddress = Some("12 Nile St"),
       !.tableNumber = Some(4), !.email = Some(GoodEmail)]

\* checkouts of both modes, with the other mode's field supplied or not
LifecycleBodies ==
    { [BothFields EXCEPT !.orderType = Some("delivery")],
      [BothFields EXCEPT !.orderType = Some("restaurant")],
      [BothFields EXCEPT !.orderType = Some("delivery"), !.tableNumber = None],
      [BothFields EXCEPT !.orderType = Some("restaurant"), !.deliveryAddress = None] }

LifecycleStatuses == {None, Some("preparing"), Some("shipped")}
LifecycleRefs == {OrderIdOf[1], OrderIdOf[MaxOrders], GhostOrder, Malformed}
LifecycleStaff == {None, Some("u2")}

\* checkouts beside status updates of the orders they create
NextLifecycle ==
    \/ \E r \in OrderSlots : \E b \in LifecycleBodies : OrderBegin(r, b)
    \/ \E r \in OrderSlots : OrderStep(r) \/ OrderEnd(r)
    \/ \E id \in LifecycleRefs : \E st \in LifecycleStatuses :
         \E pb \in LifecycleStaff : \E dp \in LifecycleStaff :
            SetStatus(id, st, pb, dp)

SpecLifecycle == Init /\ [][NextLifecycle]_vars

\* the edit forms the larger specifications use: a valid one and one without a name
SystemForms == {f \in EditForms : f.description = "d2" /\ f.price = 5 /\ f.category = "Tea"}

\* one POST /cart/save at a time, over item lists with existing and unknown
\* products, malformed and missing ids, for a known and an unknown customer,
\* while the first product is edited
SaveLists ==
    ListsOver({ItemA, ItemGhost})
      \cup {<<ItemB>>, <<ItemA, ItemB>>, <<ItemB, ItemGhost>>}
      \cup {<<ItemBlank>>, <<ItemA, ItemBad>>, <<ItemNoId, ItemA>>, <<ItemBad>>, <<>>}
SaveBodies ==
    {[customerId |-> Some(c), items |-> l] :
        c \in {"u1", GhostUser}, l \in {Some(x) : x \in SaveLists} \cup {None}}

\* the steps of a request that runs without a concurrent writer
SaveAlone(r) ==
    \/ SaveUser(r)
    \/ SaveDelete(r)
    \/ SaveProduct(r)
    \/ SaveFind(r)
    \/ SaveUpdate(r)
    \/ SaveCreate(r)
    \/ SavePopulate(r)

NextSave ==
    \/ \E b \in SaveBodies : SaveBegin("s1", b)
    \/ SaveAlone("s1") \/ SaveEnd("s1")
    \/ \E f \in SystemForms : EditProduct("p1", f)

SpecSave == Init /\ [][NextSave]_vars

\* saves of a full and of an empty list, one at a time, beside reads of the cart
EmptyBodies ==
    {[customerId |-> Some("u1"), items |-> Some(l)] :
        l \in {<<ItemA>>, <<ItemB, ItemA>>, <<>>}}

NextEmpty ==
    \/ \E b \in EmptyBodies : SaveBegin("s1", b)
    \/ SaveAlone("s1") \/ SaveEnd("s1")
    \/ \E c \in {"u1", "u2", Malformed} : GetCart(c)
    \/ GetEnd

SpecEmpty == Init /\ [][NextEmpty]_vars

\* saves for two customers, one at a time, beside reads and clears of the carts
\* of customers with and without a cart, of an unknown customer and of a
\* malformed id
ShelfBodies ==
    { [customerId |-> Some("u1"), items |-> Some(<<ItemA>>)],
      [customerId |-> Some("u1"), items |-> Some(<<ItemB, ItemA>>)],
      [customerId |-> Some("u2"), items |-> Some(<<ItemA>>)],
      [customerId |-> Some("u2"), items |-> Some(<<>>)] }
ShelfCustomers == {"u1", "u2", GhostUser, Malformed}

NextShelf ==
    \/ \E b \in ShelfBodies : SaveBegin("s1", b)
    \/ SaveAlone("s1") \/ SaveEnd("s1")
    \/ \E c \in ShelfCustomers : ClearCart(c)
    \/ \E c \in ShelfCustomers : GetCart(c)
    \/ GetEnd

SpecShelf == Init /\ [][NextShelf]_vars

\* checkouts whose prices and total differ from the catalog's, valid and not,
\* beside saves of the same customer's cart, one request of each kind at a time
CheckoutBody == [BothFields EXCEPT !.orderType = Some("delivery")]
CheckoutBodies ==
    { CheckoutBody,
      [CheckoutBody EXCEPT !.items = Some(<<OA, OB>>), !.totalPrice = Some(5)],
      [CheckoutBody EXCEPT !.items = Some(<<OA, OGhost>>)],
      [CheckoutBody EXCEPT !.customerId = Some(GhostUser)],
      [CheckoutBody EXCEPT !.totalPrice = Some(0)] }
CheckoutCartBodies ==
    {[customerId |-> Some("u1"), items |-> Some(l)] :
        l \in {<<ItemA>>, <<ItemB, ItemA>>, <<>>}}

NextCheckout ==
    \/ \E r \in OrderSlots : \E b \in CheckoutBodies : OrderBegin(r, b)
    \/ \E r \in OrderSlots : OrderStep(r) \/ OrderEnd(r)
    \/ \E b \in CheckoutCartBodies : SaveBegin("s1", b)
    \/ SaveAlone("s1") \/ SaveEnd("s1")

SpecCheckout == Init /\ [][NextCheckout]_vars

\* status updates with every enumerated value, an unknown one and none at all
StatusBody == [BothFields EXCEPT !.orderType = Some("restaurant")]
StatusRequests == {Some(st) : st \in Statuses} \cup {None, Some("shipped")}
StatusRefs == {OrderIdOf[1], OrderIdOf[MaxOrders], GhostOrder}

NextStatus ==
    \/ \E r \in OrderSlots : OrderBegin(r, StatusBody)
    \/ \E r \in OrderSlots : OrderStep(r) \/ OrderEnd(r)
    \/ \E id \in StatusRefs : \E st \in StatusRequests : \E pb \in LifecycleStaff :
          SetStatus(id, st, pb, None)

SpecStatus == Init /\ [][NextStatus]_vars

\* status updates that name a preparer, a delivery person, both or neither: a
\* user, an id of no user, an empty string or nothing
AssignValues == {None, Some(""), Some("u2"), Some(GhostUser)}
AssignStatuses == {Some("preparing"), Some("ready")}
AssignRefs == {OrderIdOf[1], OrderIdOf[MaxOrders]}

NextAssign ==
    \/ \E r \in OrderSlots : OrderBegin(r, StatusBody)
    \/ \E r \in OrderSlots : OrderStep(r) \/ OrderEnd(r)
    \/ \E id \in AssignRefs : \E st \in AssignStatuses :
          \E pb \in AssignValues : \E dp \in AssignValues :
             SetStatus(id, st, pb, dp)

SpecAssign == Init /\ [][NextAssign]_vars

\* requests through the two limiters under the same keys, beside the clock
\* and the periodic clean-up, which may run at any instant
NextLimiter ==
    \/ \E L \in Limiters : \E k \in LimitKeys : rateLimiter(L, k)
    \/ Sweep
    \/ Tick

SpecLimiter == Init /\ [][NextLimiter]_vars

\* every handler of the system side by side, on a few requests each; one cart
\* request at a time, so no create is ever refused
SystemCartBody == [customerId |-> Some("u1"), items |-> Some(<<ItemA>>)]

SystemOrderBody == [BothFields EXCEPT !.orderType = Some("delivery")]

SystemStatuses == {Some("preparing"), Some("shipped")}

Next ==
    \/ SaveBegin("s1", SystemCartBody)
    \/ SaveUser("s1") \/ SaveProduct("s1") \/ SaveFind("s1")
    \/ SaveUpdate("s1") \/ SaveCreate("s1") \/ SavePopulate("s1")
    \/ SaveEnd("s1")
    \/ ClearCart("u1")
    \/ \E r \in OrderSlots : OrderBegin(r, SystemOrderBody)
    \/ \E r \in OrderSlots : OrderStep(r) \/ OrderEnd(r)
    \/ \E st \in SystemStatuses : \E pb \in {None, Some("u2")} :
         SetStatus(OrderIdOf[1], st, pb, None)
    \/ CatalogStep({"p1"}, SystemForms)

Spec == Init /\ [][Next]_vars

----------------------------------------------------------------------------
(* Claims about the cart under concurrent requests *)

\* C1: in every reachable state, whatever saveCart and clearCart requests
\* interleave, at most one cart document exists per customer identifier
C1_AtMostOneCartPerCustomer ==
    \A c \in UserIds \cup {GhostUser} : Cardinality(CartOf(c)) <= 1

\* two requests tried to create the customer's first cart; one was refused
C1_Witness ==
    \E r \in CartSlots :
        /\ creq[r].conflict
        /\ Cardinality(CartOf(creq[r].body.customerId[1])) = 1

AllDone == \A r \in CartSlots : creq[r].pc = "done"

\* C2: when two saveCart requests with non-empty valid lists run concurrently
\* for a customer without a cart and nothing else touches the cart, both
\* return success, exactly one cart document exists afterwards, and a request
\* whose create was refused has re-read the document the other created and
\* stored its own lines in it
C2_BothSavesSucceed ==
    AllDone =>
        /\ \A r \in CartSlots : creq[r].res = Res(200, "CartSaved")
        /\ Cardinality(CartOf("u1")) = 1
        /\ \A r \in CartSlots :
              creq[r].conflict =>
                /\ \E o \in CartSlots \ {r} :
                      ~creq[o].conflict /\ creq[o].cart.id = creq[r].cart.id
                /\ \A d \in CartOf("u1") :
                      d.id = creq[r].cart.id /\ d.items = creq[r].formatted

\* both requests are answered and one of them lost the create
C2_Witness == AllDone /\ \E r \in CartSlots : creq[r].conflict

\* C3: a saveCart whose create hits the uniqueness constraint never reports a
\* failure to its caller, whatever saveCart and clearCart requests interleave
C3_ConflictNeverSurfaces ==
    \A r \in CartSlots :
        (creq[r].pc = "done" /\ creq[r].conflict) => creq[r].res.code = 200

----------------------------------------------------------------------------
(* Claims about order creation *)

OrderFailed(q) == q.pc = "done" /\ q.res.code # 201

\* C4: a createOrder request that returns a failure leaves the persisted
\* orders as they were: the step that answers with a failure writes nothing,
\* a failed request holds no persisted document, and orders are written only
\* by the save of a request that passed every check
C4_FailureWritesNothing ==
    /\ [](\A r \in OrderSlots : OrderFailed(oreq[r]) => oreq[r].newOrder = 0)
    /\ [][\A r \in OrderSlots :
            /\ (~OrderFailed(oreq[r]) /\ OrderFailed(oreq'[r])) => orders' = orders
            /\ (oreq[r].pc \in {"user", "product"} /\ oreq'[r] # oreq[r]) => orders' = orders]_vars
    /\ [][orders' # orders =>
            \E r \in OrderSlots :
                /\ oreq[r].pc = "save" /\ oreq'[r].pc = "populate"
                /\ orders' = Append(orders, orders'[Len(orders')])
                /\ oreq[r].idx = Len(oreq[r].body.items[1]) + 1]_vars

\* a request failed on its second item after an earlier request was persisted
C4_Witness ==
    \E r \in OrderSlots :
        /\ OrderFailed(oreq[r])
        /\ oreq[r].res = ORes(404, "ProductNotFound", 2)
        /\ Len(orders) = 1

\* the product id of item i of request q is well formed and not in the catalog
AbsentItem(q, i) ==
    LET pid == ItemProductId(q.body.items[1][i]) IN
    TruthyStr(pid) /\ IsValidObjectId(pid[1]) /\ FindProduct(pid[1]) = None

\* item i of request q names an id the catalog never handed out
NeverExisted(q, i) ==
    LET pid == ItemProductId(q.body.items[1][i]) IN
    TruthyStr(pid) /\ IsValidObjectId(pid[1]) /\ pid[1] \notin ProductIds

\* C5: a createOrder that passed checks 1 to 6 and holds an item whose
\* well-formed productId is absent from the catalog fails as a whole with
\* ProductNotFound (404) naming that item, at whatever position it stands:
\* the lookup of an absent product ends the request with 404 for that item
\* and writes nothing; a request is persisted only after every item was
\* looked up; the item named is absent, and no item before it is one that
\* never existed
C5_AbsentProductFailsOrder ==
    /\ [][\A r \in OrderSlots :
            (oreq[r].pc = "product" /\ oreq'[r] # oreq[r] /\ AbsentItem(oreq[r], oreq[r].idx))
              => /\ oreq'[r].pc = "done"
                 /\ oreq'[r].res = ORes(404, "ProductNotFound", oreq[r].idx)
                 /\ orders' = orders]_vars
    /\ [](\A r \in OrderSlots :
            LET q == oreq[r] IN
            /\ (q.pc \in {"save", "populate"} \/ (q.pc = "done" /\ q.res.code = 201))
                 => /\ q.idx = Len(q.body.items[1]) + 1
                    /\ \A i \in 1..Len(q.body.items[1]) : ~NeverExisted(q, i)
            /\ (q.pc = "done" /\ q.res.msg = "ProductNotFound")
                 => /\ q.res.code = 404
                    /\ q.res.item \in 1..Len(q.body.items[1])
                    /\ ~LookupFinds(ItemProductId(q.body.items[1][q.res.item]))
                    /\ \A j \in 1..(q.res.item - 1) : ~NeverExisted(q, j))

\* a two-item request whose first item resolved failed on its absent second item
C5_Witness ==
    \E r \in OrderSlots :
        LET q == oreq[r] IN
        /\ q.pc = "done" /\ q.res = ORes(404, "ProductNotFound", 2)
        /\ AbsentItem(q, 2)
        /\ LookupFinds(ItemProductId(q.body.items[1][1]))

\* C6: in createOrder an item whose product identifier is malformed is
\* rejected as an invalid reference, a client-side failure, and never reported
\* as a server failure (500)
C6_MalformedIdIsClientError ==
    \A r \in OrderSlots :
        LET q == oreq[r] IN
        (q.pc = "done" /\ q.res.item > 0 /\ LookupThrows(ItemProductId(q.body.items[1][q.res.item])))
          => q.res.code \in {400, 404}

\* the seven checks of createOrder, numbered in the order of C7
Violates(k, b) ==
    CASE k = 1 -> b.customerId = None \/ b.items = None \/ b.items = Some(<<>>)
      [] k = 2 -> b.totalPrice = None \/ b.totalPrice[1] <= 0
      [] k = 3 -> b.orderType = None \/ b.orderType[1] \notin {"delivery", "restaurant"}
      [] k = 4 -> b.email = None \/ ~EmailRegexTest(b.email[1])
      [] k = 5 -> \/ b.orderType = Some("delivery") /\ b.deliveryAddress \in {None, Some("")}
                  \/ b.orderType = Some("restaurant") /\ b.tableNumber \in {None, Some(0)}
      [] k = 6 -> \/ b.customerId = None
                  \/ ~(IsValidObjectId(b.customerId[1]) /\ UserExists(b.customerId[1]))

\* the responses that report the failure of check k (a malformed customer id
\* makes the customer lookup itself fail: its error is the report of check 6)
ReportsOf(k, b) ==
    CASE k = 1 -> {ORes(400, "CustomerIdAndItemsRequired", 0)}
      [] k = 2 -> {ORes(400, "TotalPriceRequired", 0)}
      [] k = 3 -> {ORes(400, "OrderTypeInvalid", 0)}
      [] k = 4 -> {ORes(400, "EmailRequired", 0), ORes(400, "EmailInvalid", 0)}
      [] k = 5 -> IF b.orderType = Some("delivery")
                    THEN {ORes(400, "DeliveryAddressRequired", 0)}
                    ELSE {ORes(400, "TableNumberRequired", 0)}
      [] k = 6 -> IF IsValidObjectId(b.customerId[1])
                    THEN {ORes(404, "CustomerNotFound", 0)}
                    ELSE {ORes(500, "CastError", 0)}

Violated(b) == {k \in 1..6 : Violates(k, b)}
LowestViolated(b) == CHOOSE k \in Violated(b) : \A m \in Violated(b) : k <= m

\* C7: createOrder applies its checks in the order 1..7; a request that
\* violates several is answered with the failure of the lowest-numbered
\* violated check, and a request answered by the product check (7) or
\* persisted violates none of the checks 1 to 6
C7_LowestViolatedCheckReported ==
    \A r \in OrderSlots :
        LET q == oreq[r] IN
        /\ (q.pc = "done" /\ Violated(q.body) # {})
             => q.res \in ReportsOf(LowestViolated(q.body), q.body)
        /\ (q.pc = "done" /\ Violated(q.body) = {})
             => q.res.msg \in {"OrderCreated", "ProductNotFound", "CastError"} /\
                (q.res.msg = "OrderCreated" <=> q.res.item = 0)
        /\ q.pc \in {"product", "save", "populate"} => Violated(q.body) = {}

\* a request that violated checks 2, 4 and 6 was answered for check 2
C7_Witness ==
    \E r \in OrderSlots :
        LET q == oreq[r] IN
        /\ q.pc = "done"
        /\ {2, 4, 6} \subseteq Violated(q.body)
        /\ q.res = ORes(400, "TotalPriceRequired", 0)

\* C9: every order is created with status pending and paymentStatus paid,
\* preparedBy and deliveryPersonId null, whatever the request contains
C9_CreatedPendingPaid ==
    [][\A i \in 1..Len(orders') :
         i > Len(orders) =>
           /\ orders'[i].status = "pending"
           /\ orders'[i].paymentStatus = "paid"
           /\ orders'[i].preparedBy = None
           /\ orders'[i].deliveryPersonId = None]_vars

\* an order was created from a request that carried a status, a payment
\* status and a preparedBy of its own
C9_Witness ==
    \E r \in OrderSlots :
        LET q == oreq[r] IN
        /\ q.pc = "populate"
        /\ q.body.status = Some("delivered")
        /\ q.body.paymentStatus = Some("unpaid")
        /\ q.body.preparedBy # None
        /\ orders[q.newOrder].status = "pending"

----------------------------------------------------------------------------
(* Claims about persisted orders *)

\* C8: every persisted order has exactly one of deliveryAddress and
\* tableNumber non-null, the one its orderType determines, also when the
\* request supplied both and after any setStatus calls
C8_ExactlyOneOfAddressAndTable ==
    \A i \in 1..Len(orders) :
        LET o == orders[i] IN
        /\ o.orderType = "delivery" => (TruthyStr(o.deliveryAddress) /\ o.tableNumber = None)
        /\ o.orderType = "restaurant" => (TruthyNum(o.tableNumber) /\ o.deliveryAddress = None)
        /\ o.orderType \in OrderTypes

\* an order made from a request that supplied both fields has had its status set
C8_Witness ==
    \E r \in OrderSlots :
        LET q == oreq[r] IN
        /\ q.pc = "done" /\ q.res.code = 201
        /\ q.body.deliveryAddress # None /\ q.body.tableNumber # None
        /\ orders[q.newOrder].status = "preparing"
        /\ orders[q.newOrder].orderType = "delivery"

\* the fields of an order that are fixed at creation
Frozen(o) ==
    [customerId |-> o.customerId, items |-> o.items, totalPrice |-> o.totalPrice,
     orderType |-> o.orderType, deliveryAddress |-> o.deliveryAddress,
     tableNumber |-> o.tableNumber, paymentStatus |-> o.paymentStatus, email |-> o.email]

\* C10: once an order is persisted no operation changes its customerId,
\* items, totalPrice, orderType, deliveryAddress, tableNumber, paymentStatus
\* or email, and no operation removes it
C10_OrderImmutable ==
    [][\A i \in 1..Len(orders) :
         /\ i <= Len(orders')
         /\ Frozen(orders'[i]) = Frozen(orders[i])]_vars

\* an order whose product has left the catalog has had its status and its
\* preparer set, while a cart was stored and a second order was created
C10_Witness ==
    /\ Len(orders) = 2
    /\ orders[1].status = "preparing" /\ orders[1].preparedBy = Some("u2")
    /\ FindProduct(orders[1].items[1].productId) = None
    /\ carts # {}

----------------------------------------------------------------------------
(* Claims about stored carts *)

\* C11: editing a product, toggling its availability or deleting it changes
\* no stored cart: every line keeps the name, price, quantity, image,
\* description and category it was saved with and stays in its cart
C11_CatalogChangesKeepCarts ==
    [][products' # products => carts' = carts]_vars

\* a stored cart holds a line, with the values it was saved with, of a product
\* that has since left the catalog
C11_Witness ==
    \E d \in carts :
        /\ d.items # <<>>
        /\ d.items[1].productId = "p1" /\ d.items[1].name = ProductP1.name
        /\ d.items[1].price = ProductP1.price
        /\ products["p1"] = None

----------------------------------------------------------------------------
(* Claims about status updates *)

\* C12: for an existing order in any status, setStatus with any of the six
\* enumerated values succeeds and leaves the order with the requested status;
\* no transition is refused, and every order's status is one of the six values
C12_AnyTransitionAccepted ==
    /\ \A i \in 1..Len(orders) : orders[i].status \in Statuses
    /\ \A i \in 1..Len(orders) : \A st \in Statuses : \A pb \in LifecycleStaff :
          ENABLED ( /\ SetStatus(OrderIdOf[i], Some(st), pb, None)
                    /\ sres' = Res(200, "StatusUpdated")
                    /\ orders'[i].status = st
                    /\ Len(orders') = Len(orders) )

\* an order was brought back to pending by an update while another is delivered
C12_Witness ==
    /\ Len(orders) = 2
    /\ orders[1].status = "pending" /\ orders[1].preparedBy # None
    /\ orders[2].status = "delivered"
    /\ sres = Res(200, "StatusUpdated")

\* well-formed order ids that resolve to no order
UnknownOrderRefs == {id \in {OrderIdOf[i] : i \in 1..Len(OrderIdOf)} \cup {GhostOrder} :
                        FindOrder(id) = {}}

InvalidStatusValues == {None, Some(""), Some("shipped")}

\* C13: setStatus with an absent or unknown status fails with InvalidStatus
\* whatever the order id (also one that resolves to no order); with a valid
\* status and a well-formed id of no order it fails with OrderNotFound; in both
\* failures no order changes, whatever preparedBy and deliveryPersonId were
C13_StatusFailuresChangeNothing ==
    \A pb \in LifecycleStaff : \A dp \in LifecycleStaff :
        /\ \A id \in LifecycleRefs \cup UnknownOrderRefs : \A st \in InvalidStatusValues :
              ENABLED ( /\ SetStatus(id, st, pb, dp)
                        /\ sres' = Res(400, "InvalidStatus")
                        /\ orders' = orders )
        /\ \A id \in UnknownOrderRefs : \A st \in Statuses :
              ENABLED ( /\ SetStatus(id, Some(st), pb, dp)
                        /\ sres' = Res(404, "OrderNotFound")
                        /\ orders' = orders )

\* an update for an unknown order was refused while an order waits untouched
C13_Witness ==
    /\ sres = Res(404, "OrderNotFound")
    /\ Len(orders) = 1
    /\ orders[1].status = "pending" /\ orders[1].preparedBy = None

----------------------------------------------------------------------------
(* Claims about what saveCart stores *)

\* the request in slot r is a save of a list for customer c
SavesList(q, c) ==
    /\ q.pc # "idle"
    /\ q.body.customerId = Some(c)
    /\ q.body.items # None

WellFormedList(l) ==
    \A i \in 1..Len(l) :
        TruthyStr(ItemProductId(l[i])) /\ IsValidObjectId(ItemProductId(l[i])[1])

\* the product ids of the submitted lines whose product is in the catalog
SurvivingIds(l) ==
    LET kept == SelectSeq(l, LAMBDA it : FindProduct(ItemProductId(it)[1]) # None)
    IN [i \in 1..Len(kept) |-> ItemProductId(kept[i])[1]]

LineIds(lines) == [i \in 1..Len(lines) |-> lines[i].productId]

\* the step in which the request of slot r writes the cart
Writes(r) ==
    creq[r].pc \in {"update", "reupdate", "create"} /\ creq'[r].pc = "populate"

\* C14: for an existing customer and a non-empty list of well-formed product
\* ids, saveCart stores exactly the lines whose product exists, in submission
\* order, and succeeds; if none exists it fails with NoValidItems and leaves
\* the stored cart as it was
C14_StoresExistingLinesOnly ==
    [][\A r \in {"s1"} :
         LET q == creq[r]
             l == q.body.items[1] IN
         (SavesList(q, "u1") /\ l # <<>> /\ WellFormedList(l)) =>
            /\ Writes(r) =>
                  \E d \in carts' :
                     /\ CartOf("u1")' = {d}
                     /\ LineIds(d.items) = SurvivingIds(l)
            /\ (carts' # carts) => Writes(r)
            /\ (creq'[r].pc = "done" /\ q.pc # "done") =>
                  creq'[r].res = IF SurvivingIds(l) = <<>>
                                   THEN Res(400, "NoValidItems")
                                   ELSE Res(200, "CartSaved")
            /\ SurvivingIds(l) = <<>> => carts' = carts]_vars

\* a list with an unknown product in front was saved over an earlier cart, and
\* only the known product's line is stored
C14_Witness ==
    LET q == creq["s1"] IN
    /\ q.pc = "done" /\ q.res = Res(200, "CartSaved")
    /\ q.body.items = Some(<<ItemGhost, ItemA>>)
    /\ q.cart.v > 0
    /\ \E d \in CartOf("u1") : LineIds(d.items) = <<"p1">>

\* the line of l at position i has a well-formed id of a product in the catalog
GoodLine(l, i) ==
    LET pid == ItemProductId(l[i]) IN
    TruthyStr(pid) /\ IsValidObjectId(pid[1]) /\ FindProduct(pid[1]) # None

\* C15: a submitted line whose productId is missing or malformed is dropped
\* and the other lines of the request are still saved: a request with such a
\* line and a line of an existing product ends in success
C15_BadLineIsDropped ==
    \A r \in {"s1"} :
        LET q == creq[r]
            l == q.body.items[1] IN
        ( /\ SavesList(q, "u1") /\ q.pc = "done"
          /\ ~WellFormedList(l)
          /\ \E i \in 1..Len(l) : GoodLine(l, i) )
          => q.res = Res(200, "CartSaved")

\* the request of slot r is a save of the empty list for customer c
SavesEmpty(q, c) == SavesList(q, c) /\ q.body.items = Some(<<>>)

\* C16: for an existing customer, saveCart with an empty list deletes the
\* customer's cart and answers with an empty-cart success whether or not a cart
\* existed; a getCart that follows, with no other request for the customer in
\* between, returns an empty item list
C16_EmptySaveThenGetIsEmpty ==
    [][\A r \in {"s1"} :
         LET q == creq[r] IN
         SavesEmpty(q, "u1") =>
            /\ (q.pc # "done" /\ creq'[r].pc = "done") =>
                  /\ creq'[r].res = Res(200, "CartCleared")
                  /\ CartOf("u1")' = {}
            /\ (q.pc = "done" /\ gres = NoGet /\ gres'.customerId = "u1") =>
                  gres' = GetRes(200, "u1", <<>>)]_vars

\* the customer had a cart, saved the empty list, and then read an empty cart
C16_Witness ==
    /\ SavesEmpty(creq["s1"], "u1") /\ creq["s1"].pc = "done"
    /\ nextCartId > 1
    /\ gres = GetRes(200, "u1", <<>>)

\* C17: saveCart with a customerId that resolves to no customer fails with
\* CustomerNotFound for every item list, the empty one and a missing one
\* included, and creates, changes or deletes no cart document
C17_UnknownCustomerWritesNothing ==
    [][\A r \in {"s1"} :
         LET q == creq[r] IN
         (q.pc # "idle" /\ q.body.customerId = Some(GhostUser)) =>
            /\ carts' = carts
            /\ nextCartId' = nextCartId
            /\ (q.pc # "done" /\ creq'[r].pc = "done") =>
                  creq'[r].res = Res(404, "CustomerNotFound")
            /\ creq'[r].pc \in {"user", "done", "idle"}]_vars

\* an empty list for an unknown customer was refused while a cart is stored
C17_Witness ==
    LET q == creq["s1"] IN
    /\ q.pc = "done" /\ q.res = Res(404, "CustomerNotFound")
    /\ q.body = [customerId |-> Some(GhostUser), items |-> Some(<<>>)]
    /\ CartOf("u1") # {}

\* the submitted lines whose product is in the catalog
KeptLines(l) == SelectSeq(l, LAMBDA it : FindProduct(ItemProductId(it)[1]) # None)

\* the quantity stored for a submitted quantity
ClampedQuantity(x) == IF x # None /\ x[1] > 0 THEN x[1] ELSE 1

\* C18: a successful saveCart with a non-empty list replaces the cart's lines
\* as a whole: the stored cart holds one line per surviving line of the
\* request, in order, each with that line's own quantity, and nothing of the
\* previous contents
C18_SaveReplacesCart ==
    [][\A r \in {"s1"} :
         LET q == creq[r]
             kept == KeptLines(q.body.items[1]) IN
         (SavesList(q, "u1") /\ Writes(r)) =>
            \E d \in carts' :
               /\ CartOf("u1")' = {d}
               /\ Len(d.items) = Len(kept)
               /\ \A i \in 1..Len(kept) :
                     /\ d.items[i].productId = ItemProductId(kept[i])[1]
                     /\ d.items[i].quantity = ClampedQuantity(kept[i].quantity)]_vars

\* the same product was submitted twice over an earlier cart: two lines are
\* stored, each with its own quantity
C18_Witness ==
    LET q == creq["s1"] IN
    /\ q.pc = "done" /\ q.res = Res(200, "CartSaved")
    /\ q.body.items = Some(<<ItemA, ItemA>>)
    /\ q.cart.v > 0
    /\ \E d \in CartOf("u1") :
          /\ Len(d.items) = 2
          /\ d.items[1].quantity = 2 /\ d.items[2].quantity = 2

\* line is what the request stores for item when every value the client sent,
\* an empty string included, counts as supplied
LineAsSupplied(item, product, line) ==
    /\ line.name = IF item.name # None THEN item.name[1] ELSE product.name
    /\ line.price = IF item.price # None THEN item.price[1] ELSE product.price
    /\ line.image = IF item.image # None THEN item.image[1] ELSE product.image
    /\ line.description =
          IF item.description # None THEN item.description[1] ELSE product.description
    /\ line.category = IF item.category # None THEN item.category[1] ELSE product.category
    /\ line.quantity = ClampedQuantity(item.quantity)

\* line is what the request stores for item when a text value counts as
\* supplied only if it is not empty
LineAsSuppliedNonEmpty(item, product, line) ==
    /\ line.name = IF TruthyStr(item.name) THEN item.name[1] ELSE product.name
    /\ line.price = IF item.price # None THEN item.price[1] ELSE product.price
    /\ line.image = IF TruthyStr(item.image) THEN item.image[1] ELSE product.image
    /\ line.description =
          IF TruthyStr(item.description) THEN item.description[1] ELSE product.description
    /\ line.category =
          IF TruthyStr(item.category) THEN item.category[1] ELSE product.category
    /\ line.quantity = ClampedQuantity(item.quantity)

\* the lookup step of slot r has added a line for the item it looked up
AddsLine(r) ==
    creq[r].pc = "product" /\ Len(creq'[r].formatted) = Len(creq[r].formatted) + 1

AddedItem(r) == creq[r].body.items[1][creq[r].idx]
AddedProduct(r) == products[ItemProductId(AddedItem(r))[1]][1]
AddedLine(r) == creq'[r].formatted[Len(creq'[r].formatted)]

\* the write step of slot r stores the lines the request has formatted
StoresFormatted(r) ==
    (SavesList(creq[r], "u1") /\ Writes(r)) =>
        \E d \in CartOf("u1")' : d.items = creq[r].formatted

\* C19 as stated: every stored line has the client's value for name, price,
\* image, description and category when the client sent one, the product's
\* current value otherwise, and the submitted quantity when positive, else 1
C19_ClientValuesPreferred ==
    [][\A r \in {"s1"} :
         /\ AddsLine(r) => LineAsSupplied(AddedItem(r), AddedProduct(r), AddedLine(r))
         /\ StoresFormatted(r)]_vars

\* C19 amended: as above, where a name, image, description or category sent
\* as the empty string counts as not supplied and the product's value is stored
C19_NonEmptyClientValuesPreferred ==
    [][\A r \in {"s1"} :
         /\ AddsLine(r) =>
               LineAsSuppliedNonEmpty(AddedItem(r), AddedProduct(r), AddedLine(r))
         /\ StoresFormatted(r)]_vars

\* after the first product was renamed and repriced, a line sent with only a
\* quantity is stored with the new name and price, and a line sent with all
\* its values and quantity 0 is stored with the client's values and quantity 1
C19_Witness ==
    \E d \in CartOf("u1") :
        /\ Len(d.items) = 2
        /\ d.items[1].name = "Mocha" /\ d.items[1].price = 5 /\ d.items[1].quantity = 2
        /\ d.items[2].name = "Mine" /\ d.items[2].price = 9 /\ d.items[2].quantity = 1
        /\ d.items[2].category = "Snacks"

\* C20: every line of every stored cart has quantity at least 1, whatever
\* quantities clients submitted
C20_StoredQuantityAtLeastOne ==
    \A d \in carts : \A i \in 1..Len(d.items) : d.items[i].quantity >= 1

\* a line submitted with a negative quantity is stored with quantity 1
C20_Witness ==
    LET q == creq["s1"] IN
    /\ q.pc = "done" /\ q.res = Res(200, "CartSaved")
    /\ q.body.items = Some(<<ItemBlank>>)
    /\ \E d \in CartOf("u1") : Len(d.items) = 1 /\ d.items[1].quantity = 1

----------------------------------------------------------------------------
(* Claims about reading and clearing carts *)

\* the well-formed customer ids: users with or without a cart and an id of no user
CartCustomers == UserIds \cup {GhostUser}

\* C21: getCart never answers NotFound; for a customer id with no stored cart
\* it answers success with a cart whose item list is empty, and a getCart
\* creates no cart document and changes nothing that is stored
C21_GetCartSynthesizesEmpty ==
    [][(gres = NoGet /\ gres' # NoGet) =>
          /\ gres'.code # 404
          /\ (gres'.customerId \in CartCustomers /\ CartOf(gres'.customerId) = {})
                => gres' = GetRes(200, gres'.customerId, <<>>)
          /\ carts' = carts /\ nextCartId' = nextCartId
          /\ products' = products /\ orders' = orders]_vars

\* an id of no user was read as an empty cart while another customer's cart
\* is stored and no document was created for the read
C21_Witness ==
    /\ gres = GetRes(200, GhostUser, <<>>)
    /\ CartOf("u2") # {}
    /\ CartOf(GhostUser) = {}

\* C22: clearCart answers success whether or not the customer has a cart and
\* leaves the customer without a cart and every other customer's cart as it
\* was; a clearCart that follows a clearCart changes nothing at all
C22_ClearCartIdempotent ==
    \A c \in CartCustomers :
        /\ ENABLED ( /\ ClearCart(c)
                     /\ dres' = Res(200, "CartCleared")
                     /\ CartOf(c)' = {}
                     /\ \A o \in CartCustomers \ {c} : CartOf(o)' = CartOf(o)
                     /\ carts' \subseteq carts )
        /\ (dres = Res(200, "CartCleared") /\ CartOf(c) = {})
              => ENABLED (ClearCart(c) /\ vars' = vars)

\* a cart was cleared while another customer's cart is stored
C22_Witness ==
    /\ dres = Res(200, "CartCleared")
    /\ nextCartId > 2
    /\ CartOf("u1") = {}
    /\ CartOf("u2") # {}

----------------------------------------------------------------------------
(* Claims about what createOrder stores *)

\* order o holds the lines l as they were submitted
LinesAsSubmitted(o, l) ==
    /\ Len(o.items) = Len(l)
    /\ \A i \in 1..Len(l) :
          /\ o.items[i].name = l[i].name
          /\ o.items[i].price = l[i].price
          /\ o.items[i].quantity = l[i].quantity

\* the sum of price times quantity over the submitted lines l
RECURSIVE LinesTotal(_)
LinesTotal(l) ==
    IF l = <<>> THEN 0 ELSE Head(l).price[1] * Head(l).quantity[1] + LinesTotal(Tail(l))

\* C23: a successful createOrder stores each line's name, price and quantity
\* and the order's totalPrice as the request submitted them: the step that
\* persists the order stores them so, and the order of a request answered
\* with success holds them
C23_OrderKeepsSubmittedPrices ==
    /\ [][\A r \in OrderSlots :
            (oreq[r].pc = "save" /\ oreq'[r].pc = "populate") =>
               /\ Len(orders') = Len(orders) + 1
               /\ orders'[Len(orders')].totalPrice = oreq[r].body.totalPrice[1]
               /\ LinesAsSubmitted(orders'[Len(orders')], oreq[r].body.items[1])]_vars
    /\ [](\A r \in OrderSlots :
            LET q == oreq[r] IN
            (q.pc = "done" /\ q.res.code = 201) =>
               /\ orders[q.newOrder].totalPrice = q.body.totalPrice[1]
               /\ LinesAsSubmitted(orders[q.newOrder], q.body.items[1]))

\* an order was created whose second line has a price other than its
\* product's and whose total is not the sum over its lines
C23_Witness ==
    \E r \in OrderSlots :
        LET q == oreq[r]
            l == q.body.items[1] IN
        /\ q.pc = "done" /\ q.res.code = 201
        /\ Len(l) = 2
        /\ l[2].price[1] # FindProduct(ItemProductId(l[2])[1])[1].price
        /\ LinesTotal(l) # q.body.totalPrice[1]
        /\ orders[q.newOrder].items[2].price = l[2].price
        /\ orders[q.newOrder].totalPrice = 5

\* the request in slot r passes every check of createOrder: its fields are
\* valid, its customer exists and every line names a product in the catalog
PassesChecks(q) ==
    /\ Violated(q.body) = {}
    /\ \A i \in 1..Len(q.body.items[1]) : LookupFinds(ItemProductId(q.body.items[1][i]))

\* C24: createOrder does not depend on the stored cart and does not touch it:
\* no step of a createOrder changes a cart; the answer is success exactly when
\* the request passes the checks on its own fields, the customer and the
\* catalog, and the order persisted holds the customer and the lines of the
\* request, whatever cart is stored
C24_OrderIgnoresCart ==
    /\ [][\A r \in OrderSlots :
            oreq'[r] # oreq[r] => (carts' = carts /\ nextCartId' = nextCartId)]_vars
    /\ [](\A r \in OrderSlots :
            LET q == oreq[r] IN
            /\ q.pc = "done" => (q.res.code = 201 <=> PassesChecks(q))
            /\ (q.pc = "done" /\ q.res.code = 201) =>
                  /\ orders[q.newOrder].customerId = q.body.customerId[1]
                  /\ LineIds(orders[q.newOrder].items) =
                        [i \in 1..Len(q.body.items[1]) |->
                            ItemProductId(q.body.items[1][i])[1]])

\* a checkout of one line succeeded while the customer's stored cart, saved
\* before the checkout began, holds two other lines and still holds them
C24_Witness ==
    \E r \in OrderSlots :
        LET q == oreq[r] IN
        /\ q.pc = "done" /\ q.res.code = 201
        /\ Len(orders[q.newOrder].items) = 1
        /\ creq["s1"].pc = "idle"
        /\ \E d \in CartOf(q.body.customerId[1]) :
              LineIds(d.items) = <<"p2", "p1">>

----------------------------------------------------------------------------
(* Claims about the progress of saveCart *)

\* how far a request has come: every step but the next turn of the item loop
\* takes it to a later stage
Stage(pc) ==
    CASE pc = "idle" -> 0
      [] pc = "user" -> 1
      [] pc = "product" -> 2
      [] pc \in {"delete", "find"} -> 3
      [] pc \in {"update", "create"} -> 4
      [] pc = "refind" -> 5
      [] pc = "reupdate" -> 6
      [] pc = "populate" -> 7
      [] pc = "done" -> 8

\* C25: every saveCart request ends with a definite response under any
\* interleaving: each step takes it to a later stage or to the next item, so
\* the re-read after a refused create and the update after the re-read happen
\* at most once; a failed store call, the update of the recovery included,
\* ends the request with an error; and every request that began is answered
C25_SaveTerminates ==
    /\ [][\A r \in CartSlots :
            LET q == creq[r]
                n == creq'[r] IN
            n # q =>
               /\ \/ Stage(n.pc) > Stage(q.pc)
                  \/ q.pc = "product" /\ n.pc = "product" /\ n.idx = q.idx + 1
               /\ n.pc = "refind" => q.pc = "create"
               /\ n.pc = "reupdate" => q.pc = "refind"
               /\ q.pc \in {"update", "reupdate"} =>
                     \/ n.pc = "populate" /\ carts' # carts
                     \/ n.pc = "done" /\ n.res.code = 500 /\ carts' = carts
               /\ q.pc = "refind" => (n.pc = "reupdate" \/ (n.pc = "done" /\ n.res.code = 500))]_vars
    /\ [](\A r \in CartSlots :
            creq[r].pc = "done" => creq[r].res.code \in {200, 400, 404, 500})
    /\ \A r \in CartSlots : (creq[r].pc # "idle") ~> (creq[r].pc = "done")

\* a request whose create was refused re-read the cart, failed to update it
\* and was answered with an error
C25_Witness ==
    \E r \in CartSlots :
        /\ creq[r].pc = "done" /\ creq[r].conflict
        /\ creq[r].res = Res(500, "VersionError")

----------------------------------------------------------------------------
(* Claims about the shape of stored carts *)

\* C26: in every reachable state every stored cart document has at least one
\* line: an empty list deletes the cart, and a list of which no line survives
\* is refused before anything is written
C26_StoredCartHasALine ==
    \A d \in carts : Len(d.items) >= 1

\* a list of which no line survives was refused while the customer's cart,
\* written twice before, is stored with its lines
C26_Witness ==
    LET q == creq["s1"] IN
    /\ q.pc = "done" /\ q.res = Res(400, "NoValidItems")
    /\ q.body.items = Some(<<ItemGhost, ItemGhost>>)
    /\ \E d \in CartOf("u1") : d.__v = 1 /\ Len(d.items) = 2

----------------------------------------------------------------------------
(* Claims about the assignees of an order *)

\* the value an assignee field has after an update that sent x for it
AssigneeAfter(old, x) == IF TruthyStr(x) THEN x ELSE old

\* C27: a successful setStatus stores preparedBy and deliveryPersonId when
\* the request supplies them, an id of no user included, and keeps the stored
\* value of a field the request does not supply; once an order has a preparer
\* (a delivery person) no step leaves it without one
C27_AssigneesStoredNeverCleared ==
    /\ [](\A i \in 1..Len(orders) : \A st \in AssignStatuses :
            \A pb \in AssignValues : \A dp \in AssignValues :
               ENABLED ( /\ SetStatus(OrderIdOf[i], st, pb, dp)
                         /\ sres' = Res(200, "StatusUpdated")
                         /\ orders'[i].preparedBy =
                               AssigneeAfter(orders[i].preparedBy, pb)
                         /\ orders'[i].deliveryPersonId =
                               AssigneeAfter(orders[i].deliveryPersonId, dp) ))
    /\ [][\A i \in 1..Len(orders) :
            /\ orders[i].preparedBy # None => orders'[i].preparedBy # None
            /\ orders[i].deliveryPersonId # None => orders'[i].deliveryPersonId # None]_vars

\* an order was given an id of no user as its preparer, and a later update
\* that sent an empty preparer left it in place
C27_Witness ==
    /\ Len(orders) = 2
    /\ orders[1].preparedBy = Some(GhostUser)
    /\ orders[1].deliveryPersonId = None
    /\ orders[1].status = "ready"
    /\ orders[2].status = "pending"
    /\ sres = Res(200, "StatusUpdated")

\* C28: of two setStatus requests for one order, one with a preparer only and
\* one with a delivery person only, whichever is applied second keeps the
\* assignee the first stored, adds its own and leaves its own status
C28_ConcurrentAssigneesBothKept ==
    \A i \in 1..Len(orders) : \A st \in AssignStatuses :
        \A x \in {Some("u2"), Some(GhostUser)} :
            /\ orders[i].preparedBy # None =>
                  ENABLED ( /\ SetStatus(OrderIdOf[i], st, None, x)
                            /\ orders'[i].preparedBy = orders[i].preparedBy
                            /\ orders'[i].deliveryPersonId = x
                            /\ orders'[i].status = st[1] )
            /\ orders[i].deliveryPersonId # None =>
                  ENABLED ( /\ SetStatus(OrderIdOf[i], st, x, None)
                            /\ orders'[i].deliveryPersonId = orders[i].deliveryPersonId
                            /\ orders'[i].preparedBy = x
                            /\ orders'[i].status = st[1] )

\* an order carries a preparer and a delivery person that two different
\* updates stored
C28_Witness ==
    /\ Len(orders) >= 1
    /\ orders[1].preparedBy = Some("u2")
    /\ orders[1].deliveryPersonId = Some(GhostUser)
    /\ orders[1].status = "preparing"

----------------------------------------------------------------------------
(* Claims about concurrent saves *)

\* C29: under concurrent non-empty saves for one customer and no clear, the
\* cart changes only when a request writes, and a write leaves one cart whose
\* lines are the complete surviving list of the request that writes: the
\* stored lines are always those of the request whose write was applied last,
\* never a mixture of two requests
C29_LastWriterWinsWhole ==
    [][carts' # carts =>
          \E r \in CartSlots :
             /\ Writes(r)
             /\ \A o \in CartSlots \ {r} : creq'[o] = creq[o]
             /\ LineIds(creq[r].formatted) = SurvivingIds(creq[r].body.items[1])
             /\ \E d \in carts' :
                   /\ CartOf("u1")' = {d}
                   /\ d.items = creq[r].formatted]_vars

\* two requests with different lists were both answered with success; the cart
\* existed before them, and it holds the lines of the one that wrote last
C29_Witness ==
    \E r \in CartSlots : \E o \in CartSlots \ {r} :
        /\ creq[r].pc = "done" /\ creq[r].res = Res(200, "CartSaved")
        /\ creq[o].pc = "done" /\ creq[o].res = Res(200, "CartSaved")
        /\ creq[r].cart.v = 1 /\ creq[o].cart.v = 0
        /\ creq[r].formatted # creq[o].formatted
        /\ nextCartId = 2
        /\ \E d \in CartOf("u1") : d.items = creq[r].formatted /\ d.__v = 2

----------------------------------------------------------------------------
(* Claims about the rate limiter *)

\* a call of limiter L under key k would be admitted now
Admits(L, k) ==
    \/ ~WindowOpen(rateLimitStore[k], now)
    \/ rateLimitStore[k][1].count + 1 <= L.maxRequests

\* C30: under every key, a request that finds no open window is admitted and
\* opens one with count 1 that ends windowMs later; a request in an open
\* window adds one to the count, leaves the reset time as it is, and is
\* admitted exactly when the count does not exceed maxRequests, so at most
\* maxRequests requests are admitted in a window and the others get 429; a
\* request changes no other key's record; the clean-up removes only expired
\* records and never changes whether a request would be admitted
C30_WindowAdmitsAtMostLimit ==
    /\ [][\A k \in LimitKeys :
            LET old == rateLimitStore[k]
                new == rateLimitStore'[k] IN
            /\ (new # old /\ new # None) =>
                  /\ lres'.key = k
                  /\ now' = now
                  /\ \A o \in LimitKeys \ {k} : rateLimitStore'[o] = rateLimitStore[o]
                  /\ IF old = None \/ now > old[1].resetTime
                       THEN /\ new[1] = [count |-> 1,
                                         resetTime |-> now + lres'.limiter.windowMs]
                            /\ lres'.code = 200
                       ELSE /\ new[1].count = old[1].count + 1
                            /\ new[1].resetTime = old[1].resetTime
                            /\ lres'.code = IF new[1].count <= lres'.limiter.maxRequests
                                              THEN 200 ELSE 429
            /\ (new # old /\ new = None) =>
                  /\ now > old[1].resetTime
                  /\ lres' = lres
                  /\ \A L \in Limiters : \A o \in LimitKeys : Admits(L, o)' = Admits(L, o)]_vars
    /\ [](\A L \in Limiters : \A k \in LimitKeys :
            /\ Admits(L, k) <=> ENABLED (rateLimiter(L, k) /\ lres'.code = 200)
            /\ (lres = LimitRes(k, 200, L) /\ rateLimitStore[k] # None)
                  => rateLimitStore[k][1].count <= L.maxRequests)

\* the low-limit limiter rejected a request in an open window that already
\* holds more requests than its limit, while the other key has its own record
C30_Witness ==
    \E k \in LimitKeys : \E o \in LimitKeys \ {k} :
        /\ lres = LimitRes(k, 429, authRateLimiter)
        /\ rateLimitStore[k] # None
        /\ rateLimitStore[k][1].count = authRateLimiter.maxRequests + 2
        /\ now = rateLimitStore[k][1].resetTime
        /\ rateLimitStore[o] # None /\ rateLimitStore[o][1].count = 1

====
